---- MODULE Spec2Model ----
(***************************************************************************)
(* Model of library/sabnzbd_config.py: the Ansible module that edits       *)
(* sabnzbd.ini through SABnzbd's own configuration library.                *)
(*                                                                         *)
(* A configuration (a ConfigObj, or the dict snapshot taken of it) is a    *)
(* tree.  A node is a record [sec, val, kids]:                             *)
(*   sec  = TRUE  : a section (a dict), kids maps its keys to nodes;       *)
(*   sec  = FALSE : a scalar, val = <<python type, text>>.                 *)
(* The file on disk is either Absent or the tree ConfigObj would parse     *)
(* from it; writing a tree turns every scalar into its text.               *)
(***************************************************************************)
EXTENDS Integers, Sequences, FiniteSets, TLC

NoKids == [k \in {} |-> FALSE]

NoVal == <<"-", "">>

Leaf(t, s) == [sec |-> FALSE, val |-> <<t, s>>, kids |-> NoKids]

Str(s) == Leaf("str", s)

IntVal(s) == Leaf("int", s)

PyNone == Leaf("none", "None")

Sect(f) == [sec |-> TRUE, val |-> NoVal, kids |-> f]

EmptySect == Sect(NoKids)

Keys(n) == DOMAIN n.kids

Has(n, k) == k \in Keys(n)

\* n[k] = c
SetItem(n, k, c) ==
    [n EXCEPT !.kids = [x \in (DOMAIN @) \cup {k} |-> IF x = k THEN c ELSE @[x]]]

\* del n[k]
DelItem(n, k) ==
    [n EXCEPT !.kids = [x \in (DOMAIN @) \ {k} |-> @[x]]]

One(k, c) == Sect([x \in {k} |-> c])

Two(k1, c1, k2, c2) == Sect([x \in {k1, k2} |-> IF x = k1 THEN c1 ELSE c2])

(***************************************************************************)
(* ConfigObj.merge(indict), the recursive update used by do_batch and      *)
(* do_present: a key whose old and new values are both dicts is merged     *)
(* recursively, any other key is assigned.                                 *)
(***************************************************************************)
RECURSIVE MergeKeys(_, _, _)
MergeKeys(self, indict, todo) ==
    IF todo = {} THEN self
    ELSE LET key == CHOOSE k \in todo : TRUE
             val == indict.kids[key]
             nxt == IF Has(self, key) /\ self.kids[key].sec /\ val.sec
                    THEN SetItem(self, key,
                                 MergeKeys(self.kids[key], val, Keys(val)))
                    ELSE SetItem(self, key, val)
         IN MergeKeys(nxt, indict, todo \ {key})

\* a plausible slip: dict.update(), which assigns every key and never recurses
RECURSIVE UpdateKeys(_, _, _)
UpdateKeys(self, indict, todo) ==
    IF todo = {} THEN self
    ELSE LET key == CHOOSE k \in todo : TRUE
         IN UpdateKeys(SetItem(self, key, indict.kids[key]), indict, todo \ {key})

MergeShallow(self, indict) == UpdateKeys(self, indict, Keys(indict))

Merge(self, indict) == MergeKeys(self, indict, Keys(indict))

(***************************************************************************)
(* The request: the module's parameters.  section is a name or None;       *)
(* value is a scalar (PyNone when not given); settings is a tree, or a     *)
(* scalar when no dict was given; option is None, a string, a mapping      *)
(* {sub: name}, a list of names, or something else (a number).             *)
(***************************************************************************)
None == "<None>"

OptNone == [kind |-> "none", s |-> "", d |-> [k \in {} |-> ""], l |-> <<>>]

OptStr(s) == [OptNone EXCEPT !.kind = "str", !.s = s]

OptDict(f) == [OptNone EXCEPT !.kind = "dict", !.d = f]

OptList(q) == [OptNone EXCEPT !.kind = "list", !.l = q]

OptOther == [OptNone EXCEPT !.kind = "other"]

\* the python object `value` used where an option is expected (line 363)
ValueAsOption(v) ==
    IF v.sec THEN OptOther
    ELSE IF v.val[1] = "none" THEN OptNone
    ELSE IF v.val[1] = "str" THEN OptStr(v.val[2])
    ELSE OptOther

Done(c) == [cfg |-> c, out |-> "ok"]

(***************************************************************************)
(* do_present: config[section].merge({option: value}), and on KeyError     *)
(* config[section] = {option: value}.                                      *)
(***************************************************************************)
DoPresentReplace(config, section, option, value) ==
    SetItem(config, section, One(option, value))

do_present(config, section, option, value) ==
    IF Has(config, section)
    THEN SetItem(config, section, Merge(config.kids[section], One(option, value)))
    ELSE SetItem(config, section, One(option, value))

(***************************************************************************)
(* do_absent.  The result is the configuration and how the call ended:     *)
(* "ok", "crash" (an uncaught TypeError: config[section] on a scalar) or   *)
(* "fail" (fail_json: option of a type it does not handle).                *)
(***************************************************************************)
RECURSIVE do_absent(_, _, _, _)
RECURSIVE AbsentEach(_, _, _, _)
RECURSIVE AbsentItems(_, _, _)

\* for key in option: self.do_absent(section=key, option=value, config=section_obj)
AbsentEach(section_obj, keys, i, value) ==
    IF i > Len(keys) THEN Done(section_obj)
    ELSE LET r == do_absent(section_obj, keys[i], ValueAsOption(value), PyNone)
         IN IF r.out # "ok" THEN r ELSE AbsentEach(r.cfg, keys, i + 1, value)

\* for key, value in option.iteritems(): self.do_absent(section=key, option=value, ...)
AbsentItems(section_obj, d, todo) ==
    IF todo = {} THEN Done(section_obj)
    ELSE LET key == CHOOSE k \in todo : TRUE
             r == do_absent(section_obj, key, OptStr(d[key]), PyNone)
         IN IF r.out # "ok" THEN r ELSE AbsentItems(r.cfg, d, todo \ {key})

do_absent(config, section, option, value) ==
    IF ~config.sec THEN [cfg |-> config, out |-> "crash"]
    ELSE IF ~Has(config, section) THEN Done(config)
    ELSE IF option.kind = "none" THEN Done(DelItem(config, section))
    ELSE LET section_obj == config.kids[section]
             r == CASE option.kind = "dict" ->
                         AbsentItems(section_obj, option.d, DOMAIN option.d)
                    [] option.kind = "list" ->
                         AbsentEach(section_obj, option.l, 1, value)
                    [] option.kind = "str" ->
                         do_absent(section_obj, option.s, OptNone, PyNone)
                    [] OTHER -> [cfg |-> section_obj, out |-> "fail"]
         IN [cfg |-> SetItem(config, section, r.cfg), out |-> r.out]

(***************************************************************************)
(* do_batch: self.get_config().merge(self.settings).                       *)
(***************************************************************************)
do_batch(config, settings) == Merge(config, settings)

(***************************************************************************)
(* The SABnzbd library, as the module uses and documents it (lines 36,     *)
(* 90-103, 285-299, 312, 323-325): read_config creates a missing file and  *)
(* parses it into CFG; save_config adds SABnzbd's defaults to CFG and      *)
(* writes it; CFG.write() writes CFG.  Writing turns every scalar into     *)
(* text, so what is read back is always a string.                          *)
(***************************************************************************)
Absent == Leaf("absent", "")

NoCfg == Leaf("unset", "")

RECURSIVE StringifyKeys(_, _)
StringifyKeys(n, todo) ==
    IF todo = {} THEN n
    ELSE LET key == CHOOSE k \in todo : TRUE
             c == n.kids[key]
             t == IF c.sec THEN StringifyKeys(c, Keys(c)) ELSE Str(c.val[2])
         IN StringifyKeys(SetItem(n, key, t), todo \ {key})

\* the content CFG.write() leaves in the file
Serialize(config) == StringifyKeys(config, Keys(config))

\* ConfigObj(path) on an existing file
Parse(file) == file

\* the file read_config creates when there is none
DefaultIni == EmptySect

\* the defaults SABnzbd adds for [categories]
Defaults == One("categories", One("tv", One("priority", Str("0"))))

RECURSIVE AddMissing(_, _, _)
AddMissing(config, dflt, todo) ==
    IF todo = {} THEN config
    ELSE LET key == CHOOSE k \in todo : TRUE
             d == dflt.kids[key]
             nxt == IF ~Has(config, key) THEN SetItem(config, key, d)
                    ELSE IF config.kids[key].sec /\ d.sec
                    THEN SetItem(config, key,
                                 AddMissing(config.kids[key], d, Keys(d)))
                    ELSE config
         IN AddMissing(nxt, dflt, todo \ {key})

\* what sabnzbd.config.save_config() makes of CFG before writing it
Twiddle(config) == AddMissing(config, Defaults, Keys(Defaults))

(***************************************************************************)
(* Bounds and the inputs of an invocation.                                 *)
(***************************************************************************)
MaxRuns == 2

Files ==
    { Absent,
      EmptySect,
      One("misc", Two("port", Str("80"), "host", Str("h"))),
      Two("misc", One("port", Str("80")),
          "categories", One("tv", Two("priority", Str("5"), "dir", Str("d")))),
      Two("growl", One("on", Str("1")),
          "categories", Two("tv", Str("x"), "*", One("priority", Str("0")))) }

Request(st, sec, opt, val, set, bk, chk) ==
    [state |-> st, section |-> sec, option |-> opt, value |-> val,
     settings |-> set, backup |-> bk, check |-> chk]

SettingsTrees ==
    { PyNone,
      EmptySect,
      One("misc", One("port", IntVal("9090"))),
      One("categories", One("tv", One("priority", Str("1")))),
      One("categories", One("tv", Str("x"))),
      One("growl", One("on", Str("1"))) }

BatchRequests ==
    { Request("batch", None, OptNone, PyNone, set, bk, chk) :
        set \in SettingsTrees, bk \in BOOLEAN, chk \in BOOLEAN }

PresentRequests ==
    { Request("present", sec, opt, val, PyNone, bk, chk) :
        sec \in {None, "misc", "categories", "growl"},
        opt \in {OptNone, OptStr("port"), OptStr("tv")},
        val \in {PyNone, Str("80"), IntVal("9090")},
        bk \in BOOLEAN, chk \in BOOLEAN }

AbsentOptions ==
    { OptNone, OptStr("port"), OptStr("tv"),
      OptDict([k \in {"tv"} |-> "priority"]),
      OptList(<<"port", "host">>), OptList(<<"tv">>),
      OptOther }

AbsentRequests ==
    { Request("absent", sec, opt, val, PyNone, bk, chk) :
        sec \in {None, "misc", "categories", "growl"},
        opt \in AbsentOptions,
        val \in {PyNone, Str("priority")},
        bk \in BOOLEAN, chk \in BOOLEAN }

Requests == BatchRequests \cup PresentRequests \cup AbsentRequests

(***************************************************************************)
(* State of one invocation (main: construct the wrapper, run, exit_json)   *)
(* and of the files it touches.                                            *)
(***************************************************************************)
VARIABLES
    args,          \* module.params and module.check_mode
    disk,          \* the destination file
    tmp,           \* the copy at self.temp_filename
    bak,           \* the copy module.backup_local would make
    attrsOk,       \* the file's attributes already match the file arguments
    fixed,         \* set_fs_attributes_if_different had to adjust them
    cfg,           \* self.config, the library's CFG
    initSnap,      \* init_config_dict
    opCfg,         \* the configuration as the operation left it
    newSnap,       \* new_config_dict
    changed,       \* changed, as run() computes it
    pc,            \* the next step of the invocation
    result,        \* what the caller is told
    last,          \* the step executed last
    fault,         \* the failure the environment injected, if any
    reads,         \* reads of the destination file in this invocation
    writes,        \* writes of the destination file in this invocation
    cleanupWrites, \* of these, the writes made by cleanup()
    run,           \* number of the invocation
    prev,          \* what the previous invocation told the caller
    disk0          \* the destination file when the invocation started

vars == <<args, disk, tmp, bak, attrsOk, fixed, cfg, initSnap, opCfg, newSnap,
          changed,
          pc, result, last, fault, reads, writes, cleanupWrites, run, prev,
          disk0>>

Init ==
    /\ args \in Requests
    /\ disk \in Files
    /\ disk0 = disk
    /\ attrsOk \in BOOLEAN
    /\ fixed = FALSE
    /\ tmp = Absent
    /\ bak = Absent
    /\ cfg = NoCfg
    /\ initSnap = NoCfg
    /\ opCfg = NoCfg
    /\ newSnap = NoCfg
    /\ changed = FALSE
    /\ pc = "construct"
    /\ result = "none"
    /\ last = "none"
    /\ fault = "none"
    /\ reads = 0
    /\ writes = 0
    /\ cleanupWrites = 0
    /\ run = 1
    /\ prev = "none"

\* fail_json ("failed") or an uncaught exception ("crashed"): the process ends
Stop(how, step) ==
    /\ pc' = "exit"
    /\ result' = how
    /\ last' = step

Goto(next, step) ==
    /\ pc' = next
    /\ result' = result
    /\ last' = step

\* __init__, lines 147-171: copy the file aside when there is one
Construct ==
    /\ pc = "construct"
    /\ tmp' = disk
    /\ Goto("validate", "construct")
    /\ UNCHANGED <<args, disk, bak, attrsOk, fixed, cfg, initSnap, opCfg, newSnap,
                   changed, fault, reads, writes, cleanupWrites, run, prev, disk0>>

Missing(a) ==
    CASE a.state = "batch" -> IF a.settings.sec THEN {} ELSE {"settings"}
      [] a.state = "present" ->
            (IF a.section = None THEN {"section"} ELSE {})
            \cup (IF a.option.kind = "none" THEN {"option"} ELSE {})
      [] a.state = "absent" -> IF a.section = None THEN {"section"} ELSE {}

Validate ==
    /\ pc = "validate"
    /\ IF Missing(args) # {}
       THEN Stop("failed", "validate")
       ELSE Goto("import", "validate")
    /\ UNCHANGED <<args, disk, tmp, bak, attrsOk, fixed, cfg, initSnap, opCfg, newSnap,
                   changed, fault, reads, writes, cleanupWrites, run, prev, disk0>>

\* __init__, lines 175-198
ImportLib ==
    /\ pc = "import"
    /\ \E loadable \in BOOLEAN :
         IF loadable
         THEN Goto("read", "import") /\ fault' = fault
         ELSE Stop("failed", "import") /\ fault' = "lib"
    /\ UNCHANGED <<args, disk, tmp, bak, attrsOk, fixed, cfg, initSnap, opCfg, newSnap,
                   changed, reads, writes, cleanupWrites, run, prev, disk0>>

ReadFailedIgnored(read_res) == FALSE

\* read_config, lines 289-293: a false read_res is a failure
ReadFailed(read_res) == ~read_res

(***************************************************************************)
(* read_config, lines 277-299: the library reads the file (creating it     *)
(* when missing), then save_config() merges the defaults and writes it.    *)
(***************************************************************************)
ReadConfig(file, read_res, saved) ==
    LET found  == IF file = Absent THEN DefaultIni ELSE file
        parsed == IF read_res THEN Parse(found) ELSE EmptySect
        merged == Twiddle(parsed)
    IN IF ReadFailed(read_res)
       THEN [out |-> "failed", disk |-> file, cfg |-> NoCfg, rd |-> 0, wr |-> 0]
       ELSE IF ~saved
       THEN [out |-> "failed", disk |-> found, cfg |-> merged, rd |-> 1, wr |-> 0]
       ELSE [out |-> "ok", disk |-> Serialize(merged), cfg |-> merged,
             rd |-> 1, wr |-> 1]

EnvFault(read_res, saved) ==
    IF ~read_res THEN "read" ELSE IF ~saved THEN "save" ELSE fault

\* run, line 262: init_config_dict = self.get_config().dict()
ReadInitial ==
    /\ pc = "read"
    /\ \E read_res \in BOOLEAN, saved \in BOOLEAN :
         LET r == ReadConfig(disk, read_res, saved)
         IN /\ disk' = r.disk
            /\ cfg' = r.cfg
            /\ reads' = reads + r.rd
            /\ writes' = writes + r.wr
            /\ fault' = EnvFault(read_res, saved)
            /\ IF r.out = "ok"
               THEN initSnap' = r.cfg /\ Goto("operate", "read")
               ELSE initSnap' = initSnap /\ Stop("failed", "read")
    /\ UNCHANGED <<args, tmp, bak, attrsOk, fixed, opCfg, newSnap, changed,
                   cleanupWrites, run, prev, disk0>>

\* set_operation, lines 225-234, and the call at line 267
Operation(a, config) ==
    CASE a.state = "batch" -> Done(do_batch(config, a.settings))
      [] a.state = "present" ->
            Done(do_present(config, a.section, a.option.s, a.value))
      [] a.state = "absent" -> do_absent(config, a.section, a.option, a.value)

\* run, line 267
Operate ==
    /\ pc = "operate"
    /\ LET r == Operation(args, cfg)
       IN /\ cfg' = r.cfg
          /\ opCfg' = r.cfg
          /\ CASE r.out = "ok" -> Goto("write", "operate")
               [] r.out = "crash" -> Stop("crashed", "operate")
               [] r.out = "fail" -> Stop("failed", "operate")
    /\ UNCHANGED <<args, disk, tmp, bak, attrsOk, fixed, initSnap, newSnap, changed,
                   fault, reads, writes, cleanupWrites, run, prev, disk0>>

\* run, line 268: write_config, lines 310-315.  The IOError handler names the
\* undefined `filename`, so a failed write ends in an uncaught NameError.
WriteConfig ==
    /\ pc = "write"
    /\ \E written \in BOOLEAN :
         IF written
         THEN /\ disk' = Serialize(cfg)
              /\ writes' = writes + 1
              /\ fault' = fault
              /\ Goto("reload", "write")
         ELSE /\ UNCHANGED <<disk, writes>>
              /\ fault' = "write"
              /\ Stop("crashed", "write")
    /\ UNCHANGED <<args, tmp, bak, attrsOk, fixed, cfg, initSnap, opCfg, newSnap,
                   changed, reads, cleanupWrites, run, prev, disk0>>

\* run, line 269: new_config_dict = self.get_config(reload=True).dict()
Reload ==
    /\ pc = "reload"
    /\ \E read_res \in BOOLEAN, saved \in BOOLEAN :
         LET r == ReadConfig(disk, read_res, saved)
         IN /\ disk' = r.disk
            /\ cfg' = r.cfg
            /\ reads' = reads + r.rd
            /\ writes' = writes + r.wr
            /\ fault' = EnvFault(read_res, saved)
            /\ IF r.out = "ok"
               THEN newSnap' = r.cfg /\ Goto("compare", "reload")
               ELSE newSnap' = newSnap /\ Stop("failed", "reload")
    /\ UNCHANGED <<args, tmp, bak, attrsOk, fixed, initSnap, opCfg, changed,
                   cleanupWrites, run, prev, disk0>>

IsChangedAlways(left, right) == TRUE

IsChangedNever(left, right) == FALSE

\* is_changed, lines 331-334
is_changed(left, right) == left # right

\* run, line 272
Compare ==
    /\ pc = "compare"
    /\ changed' = is_changed(initSnap, newSnap)
    /\ Goto("cleanup", "compare")
    /\ UNCHANGED <<args, disk, tmp, bak, attrsOk, fixed, cfg, initSnap, opCfg, newSnap,
                   fault, reads, writes, cleanupWrites, run, prev, disk0>>

WritesAlways(check_mode, chg) == ~check_mode

\* cleanup, lines 215-220: the write outside check mode
CleanupWrites(check_mode, chg) == ~check_mode /\ chg

Report(chg) == IF chg THEN "changed" ELSE "unchanged"

(***************************************************************************)
(* cleanup, lines 200-223, and exit_json at line 415.                      *)
(* Check mode: move the temporary copy back; when there is none, the       *)
(* os.remove(filename) meant to delete the file names an undefined         *)
(* variable, and the NameError is reported through fail_json.              *)
(* Otherwise, on a change: backup_local(filename) names the same undefined *)
(* variable, an uncaught NameError; without backup the file is written.    *)
(* Then set_fs_attributes_if_different adjusts the file's attributes and   *)
(* reports a change when it had to.                                        *)
(***************************************************************************)
Cleanup ==
    /\ pc = "cleanup"
    /\ IF args.check
       THEN /\ IF tmp # Absent
               THEN /\ disk' = tmp
                    /\ tmp' = Absent
                    /\ pc' = "done"
                    /\ result' = Report(changed)
               ELSE /\ UNCHANGED <<disk, tmp>>
                    /\ pc' = "exit"
                    /\ result' = "failed"
            /\ UNCHANGED <<attrsOk, fixed, fault, writes, cleanupWrites>>
       ELSE IF CleanupWrites(args.check, changed)
       THEN IF args.backup
            THEN /\ pc' = "exit"
                 /\ result' = "crashed"
                 /\ UNCHANGED <<disk, tmp, attrsOk, fixed, fault, writes,
                                cleanupWrites>>
            ELSE \E written \in BOOLEAN :
                   IF written
                   THEN /\ disk' = Serialize(cfg)
                        /\ writes' = writes + 1
                        /\ cleanupWrites' = cleanupWrites + 1
                        /\ attrsOk' = TRUE
                        /\ fixed' = ~attrsOk
                        /\ pc' = "done"
                        /\ result' = Report(changed \/ ~attrsOk)
                        /\ UNCHANGED <<tmp, fault>>
                   ELSE /\ fault' = "write"
                        /\ pc' = "exit"
                        /\ result' = "crashed"
                        /\ UNCHANGED <<disk, tmp, attrsOk, fixed, writes,
                                       cleanupWrites>>
       ELSE /\ attrsOk' = TRUE
            /\ fixed' = ~attrsOk
            /\ pc' = "done"
            /\ result' = Report(changed \/ ~attrsOk)
            /\ UNCHANGED <<disk, tmp, fault, writes, cleanupWrites>>
    /\ last' = "cleanup"
    /\ UNCHANGED <<args, bak, cfg, initSnap, opCfg, newSnap, changed, reads,
                   run, prev, disk0>>

\* the same task run again, in a new process, on the file as it is now
Again ==
    /\ pc = "done"
    /\ run < MaxRuns
    /\ run' = run + 1
    /\ prev' = result
    /\ disk0' = disk
    /\ tmp' = Absent
    /\ cfg' = NoCfg
    /\ initSnap' = NoCfg
    /\ opCfg' = NoCfg
    /\ newSnap' = NoCfg
    /\ changed' = FALSE
    /\ pc' = "construct"
    /\ result' = "none"
    /\ last' = "none"
    /\ reads' = 0
    /\ writes' = 0
    /\ cleanupWrites' = 0
    /\ fixed' = FALSE
    /\ UNCHANGED <<args, disk, bak, attrsOk, fault>>

Next ==
    \/ Construct
    \/ Validate
    \/ ImportLib
    \/ ReadInitial
    \/ Operate
    \/ WriteConfig
    \/ Reload
    \/ Compare
    \/ Cleanup
    \/ Again

Spec == Init /\ [][Next]_vars

(***************************************************************************)
(* Vocabulary of the properties.                                           *)
(***************************************************************************)
RECURSIVE PathsOf(_)
PathsOf(n) ==
    UNION { {<<k>>} \cup { <<k>> \o q : q \in PathsOf(n.kids[k]) } : k \in Keys(n) }

RECURSIVE HasPath(_, _)
HasPath(n, q) ==
    \/ q = <<>>
    \/ /\ Has(n, Head(q))
       /\ HasPath(n.kids[Head(q)], Tail(q))

RECURSIVE At(_, _)
At(n, q) == IF q = <<>> THEN n ELSE At(n.kids[Head(q)], Tail(q))

Prefixes(q) == { SubSeq(q, 1, i) : i \in 1..(Len(q) - 1) }

\* q lies beneath a name to which the tree gives a scalar
BeneathScalar(tree, q) ==
    \E r \in Prefixes(q) : HasPath(tree, r) /\ ~At(tree, r).sec

Operated == pc = "write" /\ last = "operate"

RanCleanup == last = "cleanup"

Reported == result \in {"changed", "unchanged"}

\* n without the keys in ks
RECURSIVE Without(_, _)
Without(n, ks) ==
    IF ks = {} THEN n
    ELSE LET k == CHOOSE x \in ks : TRUE
         IN Without(IF Has(n, k) THEN DelItem(n, k) ELSE n, ks \ {k})

Range(q) == { q[i] : i \in 1..Len(q) }

\* C1: in check mode, whatever the state and whether or not the file existed,
\* when the run is over the file is as it was before the invocation and the
\* invocation reports changed or unchanged.
C1_CheckModeLeavesFile ==
    (args.check /\ RanCleanup) => (disk = disk0 /\ Reported)

\* C2: changed is true exactly when the snapshot taken after the initial load
\* differs from the snapshot taken after the operation was applied, written
\* and reloaded; an operation that leaves the configuration equal to the
\* initial snapshot gives changed = FALSE.
C2_ChangedIffSnapshotsDiffer ==
    (pc = "cleanup" \/ RanCleanup) =>
        /\ changed = (initSnap # newSnap)
        /\ (opCfg = initSnap => ~changed)

C2_Witness ==
    /\ pc = "cleanup"
    /\ opCfg = initSnap
    /\ ~changed
    /\ args.state = "present"

C4_BackupHoldsOriginal ==
    (args.backup /\ ~args.check /\ RanCleanup /\ fault = "none") =>
        /\ (changed => (bak # Absent /\ bak = disk0))
        /\ (~changed => bak = Absent)

RequiredMissing ==
    \/ args.state = "batch" /\ ~args.settings.sec
    \/ args.state \in {"present", "absent"} /\ args.section = None
    \/ args.state = "present" /\ args.option.kind = "none"

Failed == pc = "exit" /\ result \in {"failed", "crashed"}

\* C5: every failure (required arguments missing, library not loadable, file
\* not readable, save failing, file not writable) ends the invocation at once
\* in a failed result; no step follows it and no OK result is reported.
C5_FailureIsFinal ==
    /\ [](fault # "none" => Failed)
    /\ []((RequiredMissing /\ pc \notin {"construct", "validate"}) => Failed)
    /\ [][pc = "exit" => UNCHANGED vars]_vars

C5_Witness ==
    /\ fault = "read"
    /\ last = "reload"
    /\ Failed

\* C6: state=absent without option removes the named section and leaves every
\* other section alone; when the section did not exist the configuration is
\* unchanged and the invocation reports changed=false (no failure injected,
\* no file attribute adjusted).
C6_AbsentSection ==
    (args.state = "absent" /\ args.option.kind = "none" /\ fault = "none") =>
        /\ Operated => opCfg = Without(initSnap, {args.section})
        /\ (RanCleanup /\ ~Has(initSnap, args.section) /\ ~fixed) =>
              (opCfg = initSnap /\ result = "unchanged")

\* C7 as stated: after a batch merge everything named in settings holds the
\* value given there, and everything that existed and is not named in
\* settings is still there with its previous value.
C7_BatchKeepsEveryKey ==
    (args.state = "batch" /\ Operated) =>
        /\ \A q \in PathsOf(args.settings) :
              /\ HasPath(opCfg, q)
              /\ At(opCfg, q).sec = At(args.settings, q).sec
              /\ (~At(args.settings, q).sec => At(opCfg, q) = At(args.settings, q))
        /\ \A q \in PathsOf(initSnap) \ PathsOf(args.settings) :
              /\ HasPath(opCfg, q)
              /\ At(opCfg, q) = At(initSnap, q)

\* C7 amended: ... and everything that existed, is not named in settings and
\* does not lie beneath a name to which settings gives a scalar value, is
\* still there with its previous value.
C7_BatchKeepsUnnamedKeys ==
    (args.state = "batch" /\ Operated) =>
        /\ \A q \in PathsOf(args.settings) :
              /\ HasPath(opCfg, q)
              /\ At(opCfg, q).sec = At(args.settings, q).sec
              /\ (~At(args.settings, q).sec => At(opCfg, q) = At(args.settings, q))
        /\ \A q \in PathsOf(initSnap) \ PathsOf(args.settings) :
              ~BeneathScalar(args.settings, q) =>
                  /\ HasPath(opCfg, q)
                  /\ At(opCfg, q) = At(initSnap, q)

C7_Witness ==
    /\ args.state = "batch"
    /\ Operated
    /\ opCfg # initSnap
    /\ \E q \in PathsOf(initSnap) \ PathsOf(args.settings) :
          /\ Len(q) = 3
          /\ SubSeq(q, 1, 2) \in PathsOf(args.settings)
          /\ HasPath(opCfg, q)
          /\ At(opCfg, q) = At(initSnap, q)

\* C8: state=present leaves section S holding option O = V, creating S when
\* it is missing; the other options of S and the other sections keep their
\* values.
C8_PresentSetsOption ==
    (args.state = "present" /\ Operated) =>
        LET S == args.section
            O == args.option.s
        IN /\ Has(opCfg, S)
           /\ opCfg.kids[S].sec
           /\ Has(opCfg.kids[S], O)
           /\ opCfg.kids[S].kids[O] = args.value
           /\ Without(opCfg, {S}) = Without(initSnap, {S})
           /\ Has(initSnap, S) =>
                 Without(opCfg.kids[S], {O}) = Without(initSnap.kids[S], {O})

C8_Witness ==
    /\ args.state = "present"
    /\ Operated
    /\ Has(initSnap, args.section)
    /\ Keys(initSnap.kids[args.section]) \ {args.option.s} # {}
    /\ ~Has(initSnap.kids[args.section], args.option.s)

\* what C9 says do_absent leaves of section sec for the given option
C9_Expected(sec, option) ==
    CASE option.kind = "str" -> Without(sec, {option.s})
      [] option.kind = "list" -> Without(sec, Range(option.l))
      [] option.kind = "dict" ->
            [sec EXCEPT !.kids =
                [k \in DOMAIN @ |->
                    IF k \in DOMAIN option.d /\ @[k].sec
                    THEN Without(@[k], {option.d[k]})
                    ELSE @[k]]]
      [] OTHER -> sec

\* C9: state=absent with an option removes only the named option(s): a string
\* removes that key of the section, a mapping {sub: O} removes O from
\* sub-section sub, a list removes each listed key whether or not a value was
\* given; names that do not exist are a no-op; the rest is untouched.
C9_AbsentOption ==
    (/\ args.state = "absent"
     /\ args.option.kind \in {"str", "list", "dict"}
     /\ last = "operate"
     /\ Has(initSnap, args.section)
     /\ \A k \in DOMAIN args.option.d :
           Has(initSnap.kids[args.section], k) =>
               initSnap.kids[args.section].kids[k].sec) =>
        /\ pc = "write"
        /\ opCfg = SetItem(initSnap, args.section,
                           C9_Expected(initSnap.kids[args.section], args.option))

====
